---- MODULE Spec2Model ----
(***************************************************************************)
(* Model of the SealCheck category search (app/routers/search.py) over the *)
(* product_categories / product_keywords tables (app/models/category.py).  *)
(*                                                                         *)
(* Strings are sequences of one-character strings, so that trimming,       *)
(* lowercasing, prefix/substring tests and LIKE pattern matching are       *)
(* computed character by character as Python and PostgreSQL compute them.  *)
(***************************************************************************)
EXTENDS Integers, Sequences, FiniteSets, TLC

\* ------------------------------------------------------------------ bounds
MaxCats == 2      \* at most this many rows in product_categories
MaxKwRows == 2    \* at most this many rows in product_keywords

\* ------------------------------------------------------- program constants
MinLength == 2    \* Query(..., min_length=2)
EXACT == 0
STARTS_WITH == 1
CONTAINS == 2
NAME_MATCH == 3

\* ------------------------------------------------------------- characters
\* Code point of a character (Python compares str by code point).
Ord(c) ==
    CASE c = " " -> 32 [] c = "%" -> 37
      [] c = "A" -> 65 [] c = "B" -> 66 [] c = "C" -> 67 [] c = "Z" -> 90
      [] c = "\\" -> 92 [] c = "_" -> 95
      [] c = "a" -> 97 [] c = "b" -> 98 [] c = "c" -> 99 [] c = "z" -> 122

\* str.lower() on one character.
LowerChar(c) ==
    CASE c = "A" -> "a" [] c = "B" -> "b" [] c = "C" -> "c" [] c = "Z" -> "z"
      [] OTHER -> c

\* str.isspace() on one character.
IsSpace(c) == c = " "

\* str.lower()
LowerStr(s) == [i \in 1..Len(s) |-> LowerChar(s[i])]

\* str.strip(): drop leading and trailing whitespace.
RECURSIVE LStrip(_)
LStrip(s) == IF s # <<>> /\ IsSpace(Head(s)) THEN LStrip(Tail(s)) ELSE s

RECURSIVE RStrip(_)
RStrip(s) ==
    IF s # <<>> /\ IsSpace(s[Len(s)]) THEN RStrip(SubSeq(s, 1, Len(s) - 1)) ELSE s

Strip(s) == RStrip(LStrip(s))

\* str.startswith(prefix)
StartsWith(s, prefix) ==
    /\ Len(prefix) <= Len(s)
    /\ SubSeq(s, 1, Len(prefix)) = prefix

\* Python's str `<`: lexicographic by code point.
RECURSIVE StrLess(_, _)
StrLess(a, b) ==
    IF b = <<>> THEN FALSE
    ELSE IF a = <<>> THEN TRUE
    ELSE IF Ord(Head(a)) # Ord(Head(b)) THEN Ord(Head(a)) < Ord(Head(b))
    ELSE StrLess(Tail(a), Tail(b))

\* ------------------------------------------------------------ LIKE / ILIKE
\* PostgreSQL LIKE with the default escape character: '%' matches any
\* sequence, '_' any single character, '\' makes the next pattern character
\* literal.
RECURSIVE LikeMatch(_, _)
LikeMatch(p, s) ==
    IF p = <<>> THEN s = <<>>
    ELSE IF Head(p) = "%"
        THEN \/ LikeMatch(Tail(p), s)
             \/ (s # <<>> /\ LikeMatch(p, Tail(s)))
    ELSE IF Head(p) = "_"
        THEN s # <<>> /\ LikeMatch(Tail(p), Tail(s))
    ELSE IF Head(p) = "\\"
        THEN /\ Len(p) >= 2
             /\ s # <<>>
             /\ Head(s) = p[2]
             /\ LikeMatch(Tail(Tail(p)), Tail(s))
    ELSE s # <<>> /\ Head(s) = Head(p) /\ LikeMatch(Tail(p), Tail(s))

\* column.ilike(pattern): LIKE without regard to letter case.
ILike(s, p) == LikeMatch(LowerStr(p), LowerStr(s))

\* pattern = f"%{query_lower}%"
Pattern(ql) == <<"%">> \o ql \o <<"%">>

\* query_lower = q.strip().lower()
Normalize(raw) == LowerStr(Strip(raw))

\* ------------------------------------------------------------- input sets
\* Category names, keywords and raw queries the model draws from.
NamePool == { <<"c", "A", "b">>, <<"Z">> }

KeywordPool == { <<"a", "b">>, <<"A", "b", "C">>, <<"c", "a", "b">>, <<"a", "\\">> }

QueryPool ==
    { <<"a">>, <<" ", " ">>, <<" ", "a">>, <<"a", "b">>, <<" ", "A", "B">>,
      <<"a", "_">>, <<"a", "\\">> }

\* All orders in which the elements of a finite set can be listed.
Perms(S) ==
    { f \in [1..Cardinality(S) -> S] : \A i, j \in DOMAIN f : f[i] = f[j] => i = j }

\* The values of a sequence.
Range(s) == { s[i] : i \in DOMAIN s }

\* ------------------------------------------------------------------ state
VARIABLES
    cat_name,         \* product_categories: category id -> name
    cat_slug,         \* product_categories: category id -> slug (unique)
    cat_parent,       \* product_categories: category id -> parent_category_id
    cat_requires_seal,\* product_categories: category id -> requires_seal
    keywords,         \* product_keywords: set of [category_id, keyword] rows
    req,              \* the request to the categories router being served
    cur,              \* the search request whose thread is running
    suspended,        \* the other search requests in flight: id -> context
    q,                \* the request's raw query string
    pc,               \* position of the request in search_categories
    query_lower,      \* local of search_categories
    keyword_rows,     \* local: rows returned by the keyword query, in order
    kw_i,             \* local: index of the next row of the keyword loop
    keyword_ranks,    \* local: category id -> best rank seen
    name_categories,  \* local: ids of categories returned by the name query
    ranked,           \* local: list of <<rank, lowercased name, category id>>
    response,         \* what the request returned
    prev,             \* what the previous call of the same request returned
    db_error,         \* the error the database raises on a statement, or "none"
    history,          \* taxonomy versions replaced by a commit during the request
    seed,             \* seed_database.main: its position and its locals
    tx,               \* the seed session's view of the tables, not yet committed
    seal_types,       \* seal_types: slug -> name
    articles          \* articles: slug -> title

vars ==
    << cat_name, cat_slug, cat_parent, cat_requires_seal, keywords, req, cur,
       suspended, q, pc, query_lower, keyword_rows, kw_i, keyword_ranks,
       name_categories, ranked, response, prev, db_error, history, seed, tx,
       seal_types, articles >>

taxonomy == << cat_name, cat_slug, cat_parent, cat_requires_seal, keywords >>

\* The state outside the running call of search_categories.
outside == << req, cur, suspended, db_error, history, seed, tx, seal_types, articles >>

\* The database's availability, the authoring history, the seed script and
\* the tables the search and the categories router never read.
others == << db_error, history, seed, tx, seal_types, articles >>

locals == << query_lower, keyword_rows, kw_i, keyword_ranks, name_categories, ranked >>

NoResponse == [status |-> "none"]

ValidationError == [status |-> "validation_error"]

\* The locals of a call that has not run yet.
FreshLocals ==
    /\ query_lower = <<>>
    /\ keyword_rows = <<>>
    /\ kw_i = 0
    /\ keyword_ranks = <<>>
    /\ name_categories = {}
    /\ ranked = <<>>

\* Tables that satisfy the schema: keyword rows reference existing
\* categories and (category_id, keyword) is unique (a set of rows).
Taxonomies ==
    { t \in UNION { [name : [1..n -> NamePool],
                     kws : { K \in SUBSET [category_id : 1..n, keyword : KeywordPool] :
                                Cardinality(K) <= MaxKwRows }] : n \in 0..MaxCats } :
        TRUE }

\* parent_category_id IS NULL
NoParent == 0

\* Slugs the model draws from; SlugSeq lists them.
SlugSeq == << <<"a", "b">>, <<"A", "B">>, <<"a", "b", "c">>, <<"a">> >>

SlugPool == Range(SlugSeq)

\* No request to the categories router.
NoRequest == [op |-> "none"]

\* The columns search_categories never reads: distinct slugs, root
\* categories, requires_seal at its column default.
PlainColumns ==
    /\ cat_slug = [c \in DOMAIN cat_name |-> SlugSeq[c]]
    /\ cat_parent = [c \in DOMAIN cat_name |-> NoParent]
    /\ cat_requires_seal = [c \in DOMAIN cat_name |-> TRUE]

\* The seed script is not running.
SeedIdle == [pc |-> "idle"]

\* No session of the seed script is open.
NoTx == [open |-> FALSE]

\* The database answers, nobody is authoring, the seed script is not
\* running and the seal type and article tables are empty.
Quiet ==
    /\ db_error = "none"
    /\ history = {}
    /\ seed = SeedIdle
    /\ tx = NoTx
    /\ seal_types = <<>>
    /\ articles = <<>>

\* One search request and nothing else in flight.
SingleRequest ==
    /\ req = NoRequest
    /\ cur = 1
    /\ suspended = <<>>
    /\ Quiet

Init ==
    /\ \E t \in Taxonomies : cat_name = t.name /\ keywords = t.kws
    /\ PlainColumns
    /\ SingleRequest
    /\ q \in QueryPool
    /\ pc = "start"
    /\ FreshLocals
    /\ response = NoResponse
    /\ prev = NoResponse

\* ---------------------------------------------------------------- actions
\* Mutant of QueryTooShort: the bound is compared with <= instead of <.
QueryTooShort_OffByOne(raw) == Len(raw) <= MinLength

\* The request validation declared on the parameter q: min_length counts the
\* characters of the raw string.
QueryTooShort(raw) == Len(raw) < MinLength

\* A request whose q fails validation is answered with a validation error;
\* search_categories is not called.
RejectQuery ==
    /\ pc = "start"
    /\ QueryTooShort(q)
    /\ response' = ValidationError
    /\ pc' = "rejected"
    /\ UNCHANGED << taxonomy, outside, q, locals, prev >>

\* search_categories is entered: query_lower = q.strip().lower().
Begin ==
    /\ pc = "start"
    /\ ~QueryTooShort(q)
    /\ query_lower' = Normalize(q)
    /\ pc' = "query_keywords"
    /\ UNCHANGED << taxonomy, outside, q, keyword_rows, kw_i, keyword_ranks,
                    name_categories, ranked, response, prev >>

\* Mutant of KeywordHits: one row per distinct keyword string.
KeywordHits_DistinctKeyword(ql) ==
    { k \in keywords :
        /\ ILike(k.keyword, Pattern(ql))
        /\ \A r \in keywords : r.keyword = k.keyword => k.category_id <= r.category_id }

\* The rows the keyword query selects.
KeywordHits(ql) == { k \in keywords : ILike(k.keyword, Pattern(ql)) }

\* db.query(ProductKeyword).filter(keyword ILIKE pattern).all(): the rows
\* come back in an order the database chooses.
QueryKeywords ==
    /\ pc = "query_keywords"
    /\ db_error = "none"
    /\ keyword_rows' \in Perms(KeywordHits(query_lower))
    /\ kw_i' = 1
    /\ keyword_ranks' = <<>>
    /\ pc' = "kw_loop"
    /\ UNCHANGED << taxonomy, outside, q, query_lower, name_categories, ranked,
                    response, prev >>

\* Mutant of KwRank: the prefix test is missing.
KwRank_NoPrefix(kw_lower, ql) ==
    IF kw_lower = ql THEN EXACT ELSE CONTAINS

\* The match quality of one keyword row.
KwRank(kw_lower, ql) ==
    IF kw_lower = ql THEN EXACT
    ELSE IF StartsWith(kw_lower, ql) THEN STARTS_WITH
    ELSE CONTAINS

\* Mutant of RecordRank: the rank of the row seen last is stored.
RecordRank_LastWins(kr, cat_id, rank) ==
    [c \in DOMAIN kr \cup {cat_id} |-> IF c = cat_id THEN rank ELSE kr[c]]

\* keyword_ranks after one row: keep the best (lowest) rank per category.
RecordRank(kr, cat_id, rank) ==
    IF cat_id \notin DOMAIN kr \/ rank < kr[cat_id]
    THEN [c \in DOMAIN kr \cup {cat_id} |-> IF c = cat_id THEN rank ELSE kr[c]]
    ELSE kr

\* Mutant of KwLoopStep: the loop does not move on to the next row.
KwLoopStep_NoAdvance ==
    /\ pc = "kw_loop"
    /\ kw_i <= Len(keyword_rows)
    /\ LET kw_row == keyword_rows[kw_i]
           rank == KwRank(LowerStr(kw_row.keyword), query_lower)
       IN keyword_ranks' = RecordRank(keyword_ranks, kw_row.category_id, rank)
    /\ kw_i' = kw_i
    /\ UNCHANGED << taxonomy, outside, q, pc, query_lower, keyword_rows,
                    name_categories, ranked, response, prev >>

\* One iteration of `for kw_row in keyword_rows`.
KwLoopStep ==
    /\ pc = "kw_loop"
    /\ kw_i <= Len(keyword_rows)
    /\ LET kw_row == keyword_rows[kw_i]
           rank == KwRank(LowerStr(kw_row.keyword), query_lower)
       IN keyword_ranks' = RecordRank(keyword_ranks, kw_row.category_id, rank)
    /\ kw_i' = kw_i + 1
    /\ UNCHANGED << taxonomy, outside, q, pc, query_lower, keyword_rows,
                    name_categories, ranked, response, prev >>

\* The categories the name query selects.
NameHits(ql) == { c \in DOMAIN cat_name : ILike(cat_name[c], Pattern(ql)) }

\* The keyword loop is over; the name query runs and name_categories is
\* filled from its rows.
QueryNames ==
    /\ pc = "kw_loop"
    /\ kw_i > Len(keyword_rows)
    /\ db_error = "none"
    /\ name_categories' = NameHits(query_lower)
    /\ pc' = "merge"
    /\ UNCHANGED << taxonomy, outside, q, query_lower, keyword_rows, kw_i,
                    keyword_ranks, ranked, response, prev >>

\* What the caller gets when search_categories raises: the exception of
\* the statement that failed, and no SearchResult.
Raised(exception) == [status |-> "raised", exception |-> exception]

\* The keyword query raises: search_categories has no try block, so the
\* exception leaves the handler.
QueryKeywordsRaises ==
    /\ pc = "query_keywords"
    /\ db_error # "none"
    /\ response' = Raised(db_error)
    /\ pc' = "raised"
    /\ UNCHANGED << taxonomy, outside, q, locals, prev >>

\* Mutant of QueryNamesRaises: the failure of the name query is swallowed
\* and the keyword matches alone are ranked.
QueryNamesRaises_Fallback ==
    /\ pc = "kw_loop"
    /\ kw_i > Len(keyword_rows)
    /\ db_error # "none"
    /\ name_categories' = {}
    /\ pc' = "merge"
    /\ UNCHANGED << taxonomy, outside, q, query_lower, keyword_rows, kw_i,
                    keyword_ranks, ranked, response, prev >>

\* The name query raises, after the keyword loop has filled keyword_ranks.
QueryNamesRaises ==
    /\ pc = "kw_loop"
    /\ kw_i > Len(keyword_rows)
    /\ db_error # "none"
    /\ response' = Raised(db_error)
    /\ pc' = "raised"
    /\ UNCHANGED << taxonomy, outside, q, locals, prev >>

\* Mutant of MergeOrders: the two key lists are concatenated instead of
\* united, so an id found by both queries is visited twice.
MergeOrders_Concat(kr, nc) ==
    { a \o b : a \in Perms(DOMAIN kr), b \in Perms(nc) }

\* all_ids = set(keyword_ranks) | set(name_categories), as the orders in
\* which `for cat_id in all_ids` can visit it (a set of str has no defined
\* iteration order).
MergeOrders(kr, nc) == Perms(DOMAIN kr \cup nc)

\* Mutant of MergeRank: the name match is looked up first.
MergeRank_NameFirst(cat_id, kr, nc) ==
    IF cat_id \in nc THEN NAME_MATCH ELSE kr[cat_id]

\* The rank a merged candidate gets: keyword match wins over name match.
MergeRank(cat_id, kr, nc) ==
    IF cat_id \in DOMAIN kr THEN kr[cat_id] ELSE NAME_MATCH

\* ranked.append((rank, cat.name.lower(), cat))
RankedEntry(cat_id, kr, nc) ==
    << MergeRank(cat_id, kr, nc), LowerStr(cat_name[cat_id]), cat_id >>

\* Mutant of Merge: the loop stores the lowercased name back into the
\* category row.
Merge_LowercasesNames ==
    /\ pc = "merge"
    /\ \E order \in MergeOrders(keyword_ranks, name_categories) :
          /\ ranked' = [i \in 1..Len(order) |->
                           RankedEntry(order[i], keyword_ranks, name_categories)]
          /\ cat_name' = [c \in DOMAIN cat_name |->
                             IF c \in Range(order) THEN LowerStr(cat_name[c])
                             ELSE cat_name[c]]
    /\ pc' = "sort"
    /\ UNCHANGED << cat_slug, cat_parent, cat_requires_seal, keywords, outside,
                    q, query_lower, keyword_rows, kw_i, keyword_ranks,
                    name_categories, response, prev >>

\* The merge loop.
Merge ==
    /\ pc = "merge"
    /\ \E order \in MergeOrders(keyword_ranks, name_categories) :
          ranked' = [i \in 1..Len(order) |->
                        RankedEntry(order[i], keyword_ranks, name_categories)]
    /\ pc' = "sort"
    /\ UNCHANGED << taxonomy, outside, q, query_lower, keyword_rows, kw_i,
                    keyword_ranks, name_categories, response, prev >>

\* key=lambda t: (t[0], t[1]): tuples compare by rank, then by name.
KeyLess(a, b) == a[1] < b[1] \/ (a[1] = b[1] /\ StrLess(a[2], b[2]))

\* list.sort is stable: entries with equal keys keep their relative order.
\* Insert x into a sorted list behind every entry whose key is not greater.
SortedInsert(s, x) ==
    LET n == Cardinality({ i \in DOMAIN s : ~KeyLess(x, s[i]) })
    IN SubSeq(s, 1, n) \o <<x>> \o SubSeq(s, n + 1, Len(s))

\* Mutant of SortRanked: the sort key is the rank alone.
RECURSIVE SortRanked_ByRankOnly(_)
SortRanked_ByRankOnly(s) ==
    IF s = <<>> THEN <<>>
    ELSE LET rest == SortRanked_ByRankOnly(SubSeq(s, 1, Len(s) - 1))
             x == s[Len(s)]
             n == Cardinality({ i \in DOMAIN rest : rest[i][1] <= x[1] })
         IN SubSeq(rest, 1, n) \o <<x>> \o SubSeq(rest, n + 1, Len(rest))

RECURSIVE SortRanked(_)
SortRanked(s) ==
    IF s = <<>> THEN <<>>
    ELSE SortedInsert(SortRanked(SubSeq(s, 1, Len(s) - 1)), s[Len(s)])

\* CategorySummary.model_validate(cat)
CategorySummary(cat_id) ==
    [id |-> cat_id,
     name |-> cat_name[cat_id],
     slug |-> cat_slug[cat_id],
     requires_seal |-> cat_requires_seal[cat_id],
     parent_category_id |-> cat_parent[cat_id]]

\* Mutant of SearchResult: the normalized query is echoed.
SearchResult_EchoNormalized(sorted, raw) ==
    [status |-> "ok",
     categories |-> [i \in 1..Len(sorted) |-> CategorySummary(sorted[i][3])],
     query |-> Normalize(raw),
     total |-> Len(sorted)]

\* SearchResult(categories=..., query=q, total=len(categories))
SearchResult(sorted, raw) ==
    LET categories == [i \in 1..Len(sorted) |-> CategorySummary(sorted[i][3])]
    IN [status |-> "ok", categories |-> categories, query |-> raw,
        total |-> Len(categories)]

\* ranked.sort(...), then the response is built and returned.
SortAndRespond ==
    /\ pc = "sort"
    /\ ranked' = SortRanked(ranked)
    /\ response' = SearchResult(ranked', q)
    /\ pc' = "done"
    /\ UNCHANGED << taxonomy, outside, q, query_lower, keyword_rows, kw_i,
                    keyword_ranks, name_categories, prev >>

\* The client sends the same request again; the taxonomy is unchanged and
\* the new call starts with fresh locals.
Repeat ==
    /\ pc \in {"done", "rejected"}
    /\ prev' = response
    /\ response' = NoResponse
    /\ pc' = "start"
    /\ query_lower' = <<>>
    /\ keyword_rows' = <<>>
    /\ kw_i' = 0
    /\ keyword_ranks' = <<>>
    /\ name_categories' = {}
    /\ ranked' = <<>>
    /\ UNCHANGED << taxonomy, outside, q >>

Next ==
    \/ RejectQuery
    \/ Begin
    \/ QueryKeywords
    \/ KwLoopStep
    \/ QueryNames
    \/ Merge
    \/ SortAndRespond
    \/ Repeat

Spec == Init /\ [][Next]_vars

\* ------------------------------------------------- reference definitions
\* What the specification says about a category and a normalized query,
\* stated on the tables alone (literal, case-insensitive comparison).

\* s contains sub as a literal substring.
Contains(s, sub) ==
    \E i \in 1..(Len(s) - Len(sub) + 1) : SubSeq(s, i, i + Len(sub) - 1) = sub

OwnKeywords(c) == { LowerStr(k.keyword) : k \in { r \in keywords : r.category_id = c } }

HasExactKeyword(c, ql) == \E k \in OwnKeywords(c) : k = ql

HasPrefixKeyword(c, ql) == \E k \in OwnKeywords(c) : StartsWith(k, ql)

HasSubstringKeyword(c, ql) == \E k \in OwnKeywords(c) : Contains(k, ql)

NameContains(c, ql) == Contains(LowerStr(cat_name[c]), ql)

\* The tiers for which the category qualifies.
QualifyingTiers(c, ql) ==
    { t \in {EXACT, STARTS_WITH, CONTAINS, NAME_MATCH} :
        \/ t = EXACT /\ HasExactKeyword(c, ql)
        \/ t = STARTS_WITH /\ HasPrefixKeyword(c, ql)
        \/ t = CONTAINS /\ HasSubstringKeyword(c, ql)
        \/ t = NAME_MATCH /\ NameContains(c, ql) }

\* The least element of a non-empty set of numbers.
Least(S) == CHOOSE x \in S : \A y \in S : x <= y

\* The category's best match is one of the given tiers.
BestTierIn(c, ql, tiers) ==
    QualifyingTiers(c, ql) # {} /\ Least(QualifyingTiers(c, ql)) \in tiers

\* The request has returned a SearchResult.
Returned == pc = "done"

\* The request has returned a SearchResult for a query the specification
\* accepts (at least 2 characters after trimming).
ReturnedAccepted == Returned /\ Len(Strip(q)) >= MinLength

\* ... and the query holds none of the characters LIKE gives a meaning to.
ReturnedPlain == ReturnedAccepted /\ \A i \in DOMAIN q : q[i] \notin {"%", "_", "\\"}

\* The ids of the returned categories, in order.
ResultIds == [i \in 1..Len(response.categories) |-> response.categories[i].id]

\* The index of category c in the returned list (c is in the list).
IndexOf(c) == CHOOSE i \in DOMAIN ResultIds : ResultIds[i] = c

\* --------------------------------------------------------------- claims
\* C1: a query whose trimmed form has fewer than 2 characters is answered
\* with a validation error; ranking is never started for it and no
\* SearchResult is returned.
C1_ShortQueryRejected ==
    Len(Strip(q)) < MinLength => pc \in {"start", "rejected"}

\* C2: every category that owns a keyword equal to the normalized query is
\* in the returned list, at an index strictly smaller than that of every
\* returned category whose best match is tier 1, 2 or 3.
C2_ExactKeywordFirst ==
    ReturnedAccepted =>
        \A c \in DOMAIN cat_name :
            HasExactKeyword(c, Normalize(q)) =>
                /\ c \in Range(ResultIds)
                /\ \A j \in DOMAIN ResultIds :
                      BestTierIn(ResultIds[j], Normalize(q),
                                 {STARTS_WITH, CONTAINS, NAME_MATCH})
                          => IndexOf(c) < j

\* C3: in every returned SearchResult, total is the length of categories and
\* no category id occurs twice.
C3_TotalAndUnique ==
    Returned =>
        /\ response.total = Len(response.categories)
        /\ \A i, j \in DOMAIN ResultIds : ResultIds[i] = ResultIds[j] => i = j

\* C3 witness: a returned category matched through two keyword rows and
\* through its name.
C3_Witness ==
    /\ ReturnedPlain
    /\ \E c \in Range(ResultIds) :
          /\ c \in name_categories
          /\ Cardinality({ i \in DOMAIN keyword_rows : keyword_rows[i].category_id = c }) >= 2

\* C4: the returned list is sorted by (tier ascending, lowercased name
\* ascending): of two adjacent entries the earlier has the smaller tier, or
\* the same tier and a lowercased name not greater than the later one's.
C4_SortedByTierThenName ==
    Returned =>
        /\ Len(ranked) = Len(response.categories)
        /\ \A i \in DOMAIN ranked : ranked[i][3] = response.categories[i].id
        /\ \A i \in 1..(Len(ranked) - 1) :
              \/ ranked[i][1] < ranked[i + 1][1]
              \/ /\ ranked[i][1] = ranked[i + 1][1]
                 /\ ~StrLess(LowerStr(response.categories[i + 1].name),
                             LowerStr(response.categories[i].name))

\* C4 witness: two adjacent returned entries tied on tier whose lowercased
\* names differ.
C4_Witness ==
    /\ ReturnedPlain
    /\ \E i \in 1..(Len(ranked) - 1) :
          /\ ranked[i][1] = ranked[i + 1][1]
          /\ LowerStr(response.categories[i].name) # LowerStr(response.categories[i + 1].name)

\* C5: two calls of search with the same query against the unchanged
\* taxonomy return identical ordered category lists.
C5_Idempotent ==
    (ReturnedPlain /\ prev.status = "ok") => response.categories = prev.categories

\* C6: no two distinct categories of one result share the same
\* (tier, lowercased name) pair.
C6_KeyIsTotalOrder ==
    ReturnedPlain =>
        \A i, j \in DOMAIN ranked :
            i # j => << ranked[i][1], ranked[i][2] >> # << ranked[j][1], ranked[j][2] >>

\* C7: the tier assigned to every candidate equals the reference tier: the
\* lowest of exact keyword, keyword prefix, keyword substring, name
\* substring for which the category qualifies.
C7_TierIsReference ==
    ReturnedAccepted =>
        \A i \in DOMAIN ranked : BestTierIn(ranked[i][3], query_lower, {ranked[i][1]})

\* C8: every returned category has a keyword or a name that contains the
\* normalized query as a literal substring.
C8_Sound ==
    ReturnedAccepted =>
        \A c \in Range(ResultIds) :
            HasSubstringKeyword(c, query_lower) \/ NameContains(c, query_lower)

\* C9: every category with a keyword or a name that contains the normalized
\* query as a literal substring is returned.
C9_Complete ==
    ReturnedAccepted =>
        \A c \in DOMAIN cat_name :
            (HasSubstringKeyword(c, query_lower) \/ NameContains(c, query_lower))
                => c \in Range(ResultIds)

\* A keyword row of the category was selected by the keyword scan.
KeywordMatched(c) == \E k \in KeywordHits(query_lower) : k.category_id = c

\* The best rank among the selected keyword rows of the category.
BestKeywordRank(c) ==
    Least({ KwRank(LowerStr(k.keyword), query_lower) :
              k \in { r \in KeywordHits(query_lower) : r.category_id = c } })

\* C10: a category found by the keyword scan is ranked with its
\* keyword-derived tier (0, 1 or 2), never with tier 3, also when the name
\* scan found it too; and it precedes every category found by name only.
C10_KeywordTierWins ==
    Returned =>
        \A i \in DOMAIN ranked :
            KeywordMatched(ranked[i][3]) =>
                /\ ranked[i][1] = BestKeywordRank(ranked[i][3])
                /\ ranked[i][1] \in {EXACT, STARTS_WITH, CONTAINS}
                /\ \A j \in DOMAIN ranked : ~KeywordMatched(ranked[j][3]) => i < j

\* C10 witness: a returned category found by both scans whose keyword match
\* is the weakest one, and a returned category found by name only.
C10_Witness ==
    /\ ReturnedPlain
    /\ \E i, j \in DOMAIN ranked :
          /\ KeywordMatched(ranked[i][3])
          /\ ranked[i][3] \in NameHits(query_lower)
          /\ ranked[i][1] = CONTAINS
          /\ ~KeywordMatched(ranked[j][3])

\* ------------------------------------------------ the "pain" keywords
Pain == <<"p", "a", "i", "n">>

Painkiller == <<"p", "a", "i", "n", "k", "i", "l", "l", "e", "r">>

HeadachePain == <<"h", "e", "a", "d", "a", "c", "h", "e", " ", "p", "a", "i", "n">>

PainKeywordPool == { Pain, Painkiller, HeadachePain }

PainQueryPool == { Pain, <<"p">> }

\* Tables over given names and keywords that satisfy the schema.
TaxonomiesOver(names, kwpool) ==
    UNION { [name : [1..n -> names],
             kws : { K \in SUBSET [category_id : 1..n, keyword : kwpool] :
                        Cardinality(K) <= MaxKwRows }] : n \in 0..MaxCats }

\* A search request for "pain" over categories that own the three keywords.
InitPain ==
    /\ \E t \in TaxonomiesOver(NamePool, PainKeywordPool) :
          cat_name = t.name /\ keywords = t.kws
    /\ PlainColumns
    /\ SingleRequest
    /\ q \in PainQueryPool
    /\ pc = "start"
    /\ FreshLocals
    /\ response = NoResponse
    /\ prev = NoResponse

SpecPain == InitPain /\ [][Next]_vars

\* The keyword strings of the category's rows, as stored.
StoredKeywords(c) == { r.keyword : r \in { k \in keywords : k.category_id = c } }

\* The tier the returned category c was ranked with.
TierOf(c) == ranked[IndexOf(c)][1]

\* C11 (as stated): for the query "pain", a category whose only matching
\* keyword is "painkiller" is credited tier 2, one whose only matching
\* keyword is "headache pain" tier 2, one with the keyword "pain" tier 0.
C11_PainTiersAsStated ==
    (Returned /\ query_lower = Pain) =>
        \A c \in DOMAIN cat_name :
            /\ StoredKeywords(c) = {Painkiller} =>
                  c \in Range(ResultIds) /\ TierOf(c) = CONTAINS
            /\ StoredKeywords(c) = {HeadachePain} =>
                  c \in Range(ResultIds) /\ TierOf(c) = CONTAINS
            /\ Pain \in StoredKeywords(c) =>
                  c \in Range(ResultIds) /\ TierOf(c) = EXACT

\* C11 (amended): "painkiller" starts with "pain" and is credited tier 1;
\* "headache pain" is credited tier 2 and "pain" tier 0.
C11_PainTiers ==
    (Returned /\ query_lower = Pain) =>
        \A c \in DOMAIN cat_name :
            /\ StoredKeywords(c) = {Painkiller} =>
                  c \in Range(ResultIds) /\ TierOf(c) = STARTS_WITH
            /\ StoredKeywords(c) = {HeadachePain} =>
                  c \in Range(ResultIds) /\ TierOf(c) = CONTAINS
            /\ Pain \in StoredKeywords(c) =>
                  c \in Range(ResultIds) /\ TierOf(c) = EXACT

\* C11 witness: "pain" returned a category owning only "painkiller" and a
\* category owning only "headache pain".
C11_Witness ==
    /\ Returned
    /\ query_lower = Pain
    /\ \E c, d \in Range(ResultIds) :
          StoredKeywords(c) = {Painkiller} /\ StoredKeywords(d) = {HeadachePain}

\* C12: the query field of the SearchResult is the caller's input string,
\* character for character, while the comparisons use its trimmed,
\* lowercased form.
C12_QueryVerbatim ==
    Returned =>
        /\ response.query = q
        /\ query_lower = LowerStr(Strip(q))

\* C12 witness: a non-empty result for a query that normalization changes.
C12_Witness ==
    /\ ReturnedPlain
    /\ q # LowerStr(Strip(q))
    /\ response.categories # <<>>

\* The keyword scan's test selects the row.
Selected(k) == ILike(k.keyword, Pattern(query_lower))

\* The best rank among the category's own selected rows.
OwnBestRank(c) ==
    Least({ KwRank(LowerStr(r.keyword), query_lower) :
              r \in { k \in keywords : k.category_id = c /\ Selected(k) } })

NothingSelected ==
    /\ \A k \in keywords : ~Selected(k)
    /\ \A c \in DOMAIN cat_name : ~ILike(cat_name[c], Pattern(query_lower))

C15_TaxonomyUnchanged == [][taxonomy' = taxonomy]_vars

\* C15 witness: a second search call has returned.
C15_Witness ==
    /\ Returned
    /\ prev.status = "ok"
    /\ keywords # {}
    /\ response.categories # <<>>

\* An upper bound on the steps the running call still makes.
StepsLeft ==
    CASE pc = "start" -> Cardinality(keywords) + 5
      [] pc = "query_keywords" -> Cardinality(keywords) + 4
      [] pc = "kw_loop" -> (Len(keyword_rows) + 1 - kw_i) + 3
      [] pc = "merge" -> 2
      [] pc = "sort" -> 1
      [] OTHER -> 0

\* A step of the running call.
CallStep ==
    RejectQuery \/ Begin \/ QueryKeywords \/ KwLoopStep \/ QueryNames \/ Merge
        \/ SortAndRespond

\* The call is at a position where one of its steps can be taken: the
\* guards of the steps at each position leave no case out.
CanStep ==
    \/ pc = "start" /\ (QueryTooShort(q) \/ ~QueryTooShort(q))
    \/ pc = "query_keywords"
    \/ pc = "kw_loop" /\ (kw_i \in 1..Len(keyword_rows) \/ kw_i > Len(keyword_rows))
    \/ pc = "merge" /\ MergeOrders(keyword_ranks, name_categories) # {}
    \/ pc = "sort"

\* C20: every search terminates: each step of a call lowers a bound that
\* starts at the number of keyword rows plus a constant, a call that has
\* not ended can take a step, and a call that has ended holds a
\* SearchResult or an error.
C20_Terminates ==
    /\ [](StepsLeft \in 0..(Cardinality(keywords) + 5))
    /\ [][pc' # "start" => StepsLeft' < StepsLeft]_vars
    /\ [](pc \in {"done", "rejected"} \/ CanStep)
    /\ [](pc \in {"done", "rejected"} => response.status \in {"ok", "validation_error"})

\* C20 witness: a call that looped over two keyword rows and found a
\* category by name has returned.
C20_Witness ==
    /\ Returned
    /\ Len(keyword_rows) >= 2
    /\ name_categories # {}

\* ------------------------------------------------- the categories router
\* The search request is not in flight while the categories router serves.
NoSearch ==
    /\ q = <<>>
    /\ pc = "idle"
    /\ FreshLocals
    /\ response = NoResponse
    /\ prev = NoResponse

search == << q, pc, query_lower, keyword_rows, kw_i, keyword_ranks,
             name_categories, ranked, prev >>

\* parent_category_id references product_categories.id and the taxonomy is
\* a forest: following the parents of a category ends at a root.
RECURSIVE ReachesRoot(_, _, _)
ReachesRoot(p, c, fuel) ==
    IF c = NoParent THEN TRUE
    ELSE IF fuel = 0 THEN FALSE
    ELSE ReachesRoot(p, p[c], fuel - 1)

Forests(n) ==
    { p \in [1..n -> {NoParent} \cup 1..n] : \A c \in 1..n : ReachesRoot(p, c, n) }

\* An optional argument that was not given (None).
None == <<>>

\* Mutant of ListFilter: the parent filter is not applied.
ListFilter_SealOnly(parent_id, requires_seal) ==
    { c \in DOMAIN cat_name :
        requires_seal # None => cat_requires_seal[c] = requires_seal[1] }

\* The rows list_categories selects: each filter is applied only when its
\* argument is not None.
ListFilter(parent_id, requires_seal) ==
    { c \in DOMAIN cat_name :
        /\ parent_id # None => cat_parent[c] = parent_id[1]
        /\ requires_seal # None => cat_requires_seal[c] = requires_seal[1] }

\* The collations the database can have been created with: "C" orders
\* strings by code point, "ci" is a linguistic locale that orders letters
\* without regard to case.
Collations == {"C", "ci"}

\* a sorts no later than b under the collation.
CollateLeq(collation, a, b) ==
    IF collation = "C" THEN a = b \/ StrLess(a, b)
    ELSE LowerStr(a) = LowerStr(b) \/ StrLess(LowerStr(a), LowerStr(b))

\* query.order_by(ProductCategory.name).all(): the selected rows in an order
\* the collation allows (rows with equal names come in any order).
OrderByName(ids, collation) ==
    { s \in Perms(ids) :
        \A i \in 1..(Len(s) - 1) :
            CollateLeq(collation, cat_name[s[i]], cat_name[s[i + 1]]) }

\* The parent ids a request can name: every category and one id no
\* category has.
ParentArgs == { None } \cup { << c >> : c \in 1..(MaxCats + 1) }

SealArgs == { None, << TRUE >>, << FALSE >> }

\* GET /categories
ListCategories ==
    \E parent_id \in ParentArgs, requires_seal \in SealArgs, collation \in Collations :
      /\ req' = [op |-> "list", parent_id |-> parent_id,
                 requires_seal |-> requires_seal, lc_collate |-> collation]
      /\ \E rows \in OrderByName(ListFilter(parent_id, requires_seal), collation) :
            response' = [status |-> "ok",
                         categories |-> [i \in 1..Len(rows) |-> CategorySummary(rows[i])]]
      /\ UNCHANGED << taxonomy, cur, suspended, search, others >>

\* Categories with names in several letter cases, parents and seal flags.
ListNamePool == NamePool \cup { <<"C", "a", "b">> }

InitList ==
    /\ \E n \in 0..MaxCats :
          /\ cat_name \in [1..n -> ListNamePool]
          /\ cat_parent \in Forests(n)
          /\ cat_requires_seal \in [1..n -> BOOLEAN]
          /\ cat_slug = [c \in 1..n |-> SlugSeq[c]]
    /\ keywords = {}
    /\ SingleRequest
    /\ NoSearch

NextList == ListCategories

SpecList == InitList /\ [][NextList]_vars

\* The categories of a list response, as a sequence of ids.
ListedIds == [i \in 1..Len(response.categories) |-> response.categories[i].id]

Listed == req.op = "list"

\* C16 as stated: listing with a null parent argument returns exactly the
\* root categories, and with a non-null parent id exactly the categories
\* whose parent_category_id equals it.
C16_NullSelectsRoots ==
    (Listed /\ req.requires_seal = None) =>
        /\ Len(ListedIds) = Cardinality(Range(ListedIds))
        /\ Range(ListedIds) =
              IF req.parent_id = None
              THEN { c \in DOMAIN cat_name : cat_parent[c] = NoParent }
              ELSE { c \in DOMAIN cat_name : cat_parent[c] = req.parent_id[1] }

\* C16 amended: listing with a null parent argument applies no parent
\* filter and returns every category, roots and children alike; with a
\* non-null parent id it returns exactly the categories whose
\* parent_category_id equals it; both restricted to the categories with the
\* given requires_seal value when that filter is supplied; no category is
\* listed twice.
C16_NullSelectsAll ==
    Listed =>
        /\ Len(ListedIds) = Cardinality(Range(ListedIds))
        /\ \A c \in DOMAIN cat_name :
              c \in Range(ListedIds) <=>
                /\ req.parent_id = None \/ cat_parent[c] = req.parent_id[1]
                /\ req.requires_seal = None \/ cat_requires_seal[c] = req.requires_seal[1]
        /\ Range(ListedIds) \subseteq DOMAIN cat_name

C16_Witness ==
    /\ Listed
    /\ req.parent_id # None
    /\ req.requires_seal = None
    /\ Len(ListedIds) = 1
    /\ Cardinality(DOMAIN cat_name) = 2

\* C17: the list is ordered by name ascending compared case-insensitively:
\* for adjacent entries a, b, lower(a.name) <= lower(b.name).
C17_OrderedIgnoringCase ==
    Listed =>
        \A i \in 1..(Len(response.categories) - 1) :
            LET a == LowerStr(response.categories[i].name)
                b == LowerStr(response.categories[i + 1].name)
            IN a = b \/ StrLess(a, b)

\* Mutant of SlugMatches: a stored slug that starts with the argument is
\* accepted.
SlugMatches_Prefix(stored, slug) == StartsWith(stored, slug)

\* ProductCategory.slug == slug
SlugMatches(stored, slug) == stored = slug

\* HTTPException(status_code=404, detail="Category not found")
NotFound == [status |-> "not_found", status_code |-> 404]

\* The slugs a request can name: the pool holds more slugs than there are
\* categories, so one of them is always a slug no category has.
SlugArgs == SlugPool

\* category.keywords
StoredKeywordRows(c) == { r \in keywords : r.category_id = c }

\* category.subcategories
Subcategories(c) == { d \in DOMAIN cat_name : cat_parent[d] = c }

\* CategoryDetail(...): the category's columns, its keywords as strings,
\* its children and its parent as summaries (parent None for a root).
CategoryDetail(c, kw_rows, children) ==
    [status |-> "ok",
     id |-> c,
     name |-> cat_name[c],
     slug |-> cat_slug[c],
     requires_seal |-> cat_requires_seal[c],
     parent_category_id |-> cat_parent[c],
     keywords |-> [i \in 1..Len(kw_rows) |-> kw_rows[i].keyword],
     children |-> [i \in 1..Len(children) |-> CategorySummary(children[i])],
     parent |-> IF cat_parent[c] # NoParent
                THEN << CategorySummary(cat_parent[c]) >> ELSE None]

\* GET /categories/{slug}: .first() takes a row the filter selects; the
\* relationship collections load in an order the database chooses.
GetCategory ==
    \E slug \in SlugArgs :
      /\ req' = [op |-> "get", slug |-> slug]
      /\ LET found == { c \in DOMAIN cat_name : SlugMatches(cat_slug[c], slug) }
         IN IF found = {}
            THEN response' = NotFound
            ELSE \E category \in found :
                   \E kw_rows \in Perms(StoredKeywordRows(category)),
                      children \in Perms(Subcategories(category)) :
                        response' = CategoryDetail(category, kw_rows, children)
      /\ UNCHANGED << taxonomy, cur, suspended, search, others >>

\* The keywords the categories of the lookup model own.
GetKeywordPool == { <<"a", "b">>, <<"A", "b", "C">> }

\* Categories with distinct slugs (the column is unique), among them case
\* variants and prefixes of one another.
InitGet ==
    /\ \E n \in 0..MaxCats :
          /\ cat_slug \in { f \in [1..n -> SlugPool] :
                               \A c, d \in 1..n : f[c] = f[d] => c = d }
          /\ cat_parent \in Forests(n)
          /\ cat_name = [c \in 1..n |-> <<"Z">>]
          /\ cat_requires_seal = [c \in 1..n |-> TRUE]
          /\ keywords \in { K \in SUBSET [category_id : 1..n, keyword : GetKeywordPool] :
                                Cardinality(K) <= MaxKwRows }
    /\ SingleRequest
    /\ NoSearch

NextGet == GetCategory

SpecGet == InitGet /\ [][NextGet]_vars

Looked == req.op = "get"

\* The categories whose stored slug is the argument of the lookup.
WithSlug == { c \in DOMAIN cat_name : cat_slug[c] = req.slug }

\* C18: lookup by slug is exact: it returns the one category whose slug
\* equals the argument (never a prefix, substring or case variant), with
\* its own keywords, its direct subcategories and its parent; when no
\* category has that slug it signals not-found and returns no category.
C18_ExactSlugLookup ==
    Looked =>
        /\ Cardinality(WithSlug) <= 1
        /\ WithSlug = {} => response = NotFound
        /\ \A c \in WithSlug :
              /\ response.status = "ok"
              /\ response.id = c
              /\ response.slug = req.slug
              /\ Len(response.keywords) = Cardinality(Range(response.keywords))
              /\ Range(response.keywords) =
                    { k.keyword : k \in { r \in keywords : r.category_id = c } }
              /\ Len(response.children) = Cardinality(Range(response.children))
              /\ { ch.id : ch \in Range(response.children) } =
                    { d \in DOMAIN cat_name : cat_parent[d] = c }
              /\ \A ch \in Range(response.children) : ch.parent_category_id = c
              /\ IF cat_parent[c] = NoParent
                 THEN response.parent = None
                 ELSE /\ Len(response.parent) = 1
                      /\ response.parent[1].id = cat_parent[c]
                      /\ response.parent[1].slug = cat_slug[cat_parent[c]]

\* A category is found although another one has a slug that extends the
\* argument, and it comes with a keyword and its parent.
C18_Witness ==
    /\ Looked
    /\ response.status = "ok"
    /\ \E d \in DOMAIN cat_name :
          d # response.id /\ StartsWith(cat_slug[d], req.slug)
    /\ response.keywords # <<>>
    /\ response.parent # None

\* The lookup of a slug of which only a longer or differently cased
\* variant is stored signals not-found.
C18_WitnessNotFound ==
    /\ Looked
    /\ response = NotFound
    /\ \E d \in DOMAIN cat_name :
          StartsWith(cat_slug[d], req.slug) \/ LowerStr(cat_slug[d]) = LowerStr(req.slug)

\* ------------------------------------------------- concurrent searches
\* Search requests in flight at once: each runs search_categories on a
\* thread of the server's pool, with its own session from get_db.
MaxInFlight == 2

\* What belongs to one call of search_categories: its argument, its
\* position, its locals and its return value.
Context ==
    [q |-> q, pc |-> pc, query_lower |-> query_lower,
     keyword_rows |-> keyword_rows, kw_i |-> kw_i,
     keyword_ranks |-> keyword_ranks, name_categories |-> name_categories,
     ranked |-> ranked, response |-> response]

\* The context of a request that has not started.
FreshContext(raw) ==
    [q |-> raw, pc |-> "start", query_lower |-> <<>>, keyword_rows |-> <<>>,
     kw_i |-> 0, keyword_ranks |-> <<>>, name_categories |-> {},
     ranked |-> <<>>, response |-> NoResponse]

\* Mutant of Switch: keyword_ranks is one dictionary shared by all the
\* requests instead of a local of each call.
Switch_SharedRanks ==
    \E j \in DOMAIN suspended :
      /\ cur' = j
      /\ suspended' = [k \in (DOMAIN suspended \ {j}) \cup {cur} |->
                          IF k = cur THEN Context ELSE suspended[k]]
      /\ q' = suspended[j].q
      /\ pc' = suspended[j].pc
      /\ query_lower' = suspended[j].query_lower
      /\ keyword_rows' = suspended[j].keyword_rows
      /\ kw_i' = suspended[j].kw_i
      /\ keyword_ranks' = keyword_ranks
      /\ name_categories' = suspended[j].name_categories
      /\ ranked' = suspended[j].ranked
      /\ response' = suspended[j].response
      /\ UNCHANGED << taxonomy, req, prev, others >>

\* The scheduler takes the processor from the running request, at any
\* point of search_categories, and gives it to another request in flight:
\* the frame of each call keeps its own locals.
Switch ==
    \E j \in DOMAIN suspended :
      /\ cur' = j
      /\ suspended' = [k \in (DOMAIN suspended \ {j}) \cup {cur} |->
                          IF k = cur THEN Context ELSE suspended[k]]
      /\ q' = suspended[j].q
      /\ pc' = suspended[j].pc
      /\ query_lower' = suspended[j].query_lower
      /\ keyword_rows' = suspended[j].keyword_rows
      /\ kw_i' = suspended[j].kw_i
      /\ keyword_ranks' = suspended[j].keyword_ranks
      /\ name_categories' = suspended[j].name_categories
      /\ ranked' = suspended[j].ranked
      /\ response' = suspended[j].response
      /\ UNCHANGED << taxonomy, req, prev, others >>

\* Taxonomies in which one query hits several categories, through
\* keywords and through names, some of them with equal sort keys.
ConcTaxonomies ==
    { [name |-> << <<"c", "A", "b">>, <<"Z">> >>,
       kws |-> { [category_id |-> 1, keyword |-> <<"a", "b">>],
                 [category_id |-> 2, keyword |-> <<"c", "a", "b">>] }],
      [name |-> << <<"Z">>, <<"Z">> >>,
       kws |-> { [category_id |-> 1, keyword |-> <<"a", "b">>],
                 [category_id |-> 2, keyword |-> <<"a", "b">>] }],
      [name |-> << <<"c", "A", "b">>, <<"c", "A", "b">> >>,
       kws |-> { [category_id |-> 2, keyword |-> <<"A", "b", "C">>],
                 [category_id |-> 2, keyword |-> <<"c", "a", "b">>] }] }

ConcQueryPool == { <<"a", "b">>, <<"c", "a">>, <<"a">> }

InitConc ==
    /\ \E t \in ConcTaxonomies : cat_name = t.name /\ keywords = t.kws
    /\ PlainColumns
    /\ req = NoRequest
    /\ Quiet
    /\ cur = 1
    /\ \E qs \in [2..MaxInFlight -> ConcQueryPool] :
          suspended = [j \in 2..MaxInFlight |-> FreshContext(qs[j])]
    /\ q \in ConcQueryPool
    /\ pc = "start"
    /\ FreshLocals
    /\ response = NoResponse
    /\ prev = NoResponse

\* A step of the running request, or a switch to another request.
NextConc ==
    \/ RejectQuery
    \/ Begin
    \/ QueryKeywords
    \/ KwLoopStep
    \/ QueryNames
    \/ Merge
    \/ SortAndRespond
    \/ Switch

SpecConc == InitConc /\ [][NextConc]_vars

\* keyword_ranks after the loop has gone through the first i rows.
RECURSIVE RanksAfter(_, _, _)
RanksAfter(rows, i, ql) ==
    IF i = 0 THEN <<>>
    ELSE RecordRank(RanksAfter(rows, i - 1, ql), rows[i].category_id,
                    KwRank(LowerStr(rows[i].keyword), ql))

\* The responses a request for raw can get when it runs alone, from its
\* first step to its last with no other request in between.
SoloResults(raw) ==
    IF QueryTooShort(raw) THEN { ValidationError }
    ELSE LET ql == Normalize(raw)
             nc == NameHits(ql)
         IN UNION { { SearchResult(SortRanked([i \in 1..Len(o) |->
                                       RankedEntry(o[i], RanksAfter(rows, Len(rows), ql), nc)]),
                                   raw) :
                        o \in MergeOrders(RanksAfter(rows, Len(rows), ql), nc) } :
                    rows \in Perms(KeywordHits(ql)) }

\* The requests in flight, the running one included.
InFlight == { Context } \cup Range(suspended)

\* C19: in every interleaving of several searches over the same taxonomy,
\* each request that has ended returned a result it can return when run
\* alone, and no step of one request changes what belongs to another.
C19_NoInterference ==
    \A r \in InFlight :
        /\ r.pc \in {"done", "rejected"} => r.response \in SoloResults(r.q)
        /\ r.pc \notin {"done", "rejected"} => r.response = NoResponse

\* Two requests with different answers have both ended, and the running
\* one was entered while the other was inside its keyword loop.
C19_Witness ==
    /\ pc = "done"
    /\ response.categories # <<>>
    /\ \E j \in DOMAIN suspended :
          /\ suspended[j].pc = "done"
          /\ suspended[j].q # q
          /\ suspended[j].response.categories # <<>>
          /\ suspended[j].response # response

\* ------------------------------------------------- failing taxonomy reads
\* The errors a statement can raise when the data source is unavailable.
DbErrors == { "OperationalError", "InterfaceError" }

\* The database becomes unavailable, at any point of a request.
DbFails ==
    /\ db_error = "none"
    /\ db_error' \in DbErrors
    /\ UNCHANGED << taxonomy, req, cur, suspended, history, seed, tx, seal_types,
                    articles, q, pc, locals, response, prev >>

InitFail ==
    /\ \E t \in ConcTaxonomies : cat_name = t.name /\ keywords = t.kws
    /\ PlainColumns
    /\ SingleRequest
    /\ q \in ConcQueryPool
    /\ pc = "start"
    /\ FreshLocals
    /\ response = NoResponse
    /\ prev = NoResponse

NextFail ==
    \/ RejectQuery
    \/ Begin
    \/ QueryKeywords
    \/ QueryKeywordsRaises
    \/ KwLoopStep
    \/ QueryNames
    \/ QueryNamesRaises
    \/ Merge
    \/ SortAndRespond
    \/ DbFails

SpecFail == InitFail /\ [][NextFail]_vars

\* The request is about to run one of its two taxonomy reads.
AtRead ==
    \/ pc = "query_keywords"
    \/ pc = "kw_loop" /\ kw_i > Len(keyword_rows)

\* C21: if either taxonomy read of a search fails, the failure reaches the
\* caller unchanged and no SearchResult is returned: nothing is built from
\* the read that succeeded, nothing is retried, no fallback is substituted.
C21_ReadFailurePropagates ==
    /\ [][(AtRead /\ db_error # "none" /\ pc' # pc) =>
            (pc' = "raised" /\ response' = Raised(db_error))]_vars
    /\ [](pc = "raised" =>
            /\ response.status = "raised"
            /\ response.exception = db_error
            /\ "categories" \notin DOMAIN response)
    /\ [][pc = "raised" => (pc' = "raised" /\ response' = response)]_vars
    /\ [](pc = "done" => (response.status = "ok" /\ name_categories = NameHits(query_lower)))

\* The keyword read found rows and the name read failed.
C21_Witness ==
    /\ pc = "raised"
    /\ keyword_ranks # <<>>
    /\ response = Raised(db_error)

\* ------------------------------------------------- the keyword scan
\* The rows of category c the keyword loop has gone through.
ProcessedRows(c) ==
    { keyword_rows[i] : i \in { j \in 1..Len(keyword_rows) :
                                   j < kw_i /\ keyword_rows[j].category_id = c } }

\* The tier of one keyword row for the query of the request.
RowTier(r) == KwRank(LowerStr(r.keyword), query_lower)

InOrAfterLoop == pc \in {"kw_loop", "merge", "sort", "done"}

\* C27: after each row is processed keyword_ranks[c] is the minimum tier
\* over the rows of c processed so far, it never increases during the
\* loop, and once the loop is over it is the minimum over all the rows the
\* query selects for c, whatever order they came in.
C27_BestTierOrderFree ==
    /\ [](InOrAfterLoop =>
            /\ DOMAIN keyword_ranks = { c \in DOMAIN cat_name : ProcessedRows(c) # {} }
            /\ \A c \in DOMAIN keyword_ranks :
                  keyword_ranks[c] = Least({ RowTier(r) : r \in ProcessedRows(c) }))
    /\ []((InOrAfterLoop /\ kw_i > Len(keyword_rows)) =>
            \A c \in DOMAIN keyword_ranks : keyword_ranks[c] = OwnBestRank(c))
    /\ [][(pc = "kw_loop" /\ pc' = "kw_loop") =>
            \A c \in DOMAIN keyword_ranks :
                c \in DOMAIN keyword_ranks' /\ keyword_ranks'[c] <= keyword_ranks[c]]_vars

\* A weaker match on a category came after a better one and did not
\* replace it.
C27_Witness ==
    /\ pc = "kw_loop"
    /\ kw_i = 3
    /\ keyword_rows[1].category_id = keyword_rows[2].category_id
    /\ RowTier(keyword_rows[1]) < RowTier(keyword_rows[2])
    /\ keyword_ranks[keyword_rows[1].category_id] = RowTier(keyword_rows[1])

\* ------------------------------------------------- authoring during a search
\* The names and keyword rows the tables hold now.
CurrentVersion == [name |-> cat_name, kws |-> keywords]

\* Versions of a two-category taxonomy; a later one renames categories and
\* adds keyword rows, as a seed run does.
AuthorVersions ==
    { [name |-> << <<"c", "A", "b">>, <<"Z">> >>, kws |-> {}],
      [name |-> << <<"Z">>, <<"Z">> >>,
       kws |-> { [category_id |-> 2, keyword |-> <<"a", "b">>] }],
      [name |-> << <<"Z">>, <<"c", "A", "b">> >>,
       kws |-> { [category_id |-> 2, keyword |-> <<"a", "b">>],
                 [category_id |-> 1, keyword |-> <<"c", "a", "b">>] }],
      [name |-> << <<"c", "A", "b">>, <<"c", "A", "b">> >>,
       kws |-> { [category_id |-> 1, keyword |-> <<"c", "a", "b">>] }] }

\* The categories whose rows the session of the request has loaded.
LoadedCategories == { keyword_rows[i].category_id : i \in 1..Len(keyword_rows) }

\* The authoring process commits a transaction that renames categories and
\* adds keyword rows. The session of the request runs at the default
\* isolation level, where every statement reads the latest committed
\* version. A commit after the name read is not observed by the request; a
\* category the keyword read has loaded keeps its loaded attributes in the
\* session, so commits that rename one are left to the name read alone.
AuthorCommit ==
    /\ pc \in {"start", "query_keywords", "kw_loop"}
    /\ \E v \in AuthorVersions :
          /\ v # CurrentVersion
          /\ DOMAIN v.name = DOMAIN cat_name
          /\ keywords \subseteq v.kws
          /\ \A c \in LoadedCategories : v.name[c] = cat_name[c]
          /\ cat_name' = v.name
          /\ keywords' = v.kws
    /\ history' = history \cup { CurrentVersion }
    /\ UNCHANGED << cat_slug, cat_parent, cat_requires_seal, req, cur, suspended,
                    db_error, seed, tx, seal_types, articles, q, pc, locals,
                    response, prev >>

InitAuthor ==
    /\ \E v \in AuthorVersions : cat_name = v.name /\ keywords = v.kws
    /\ PlainColumns
    /\ SingleRequest
    /\ q \in ConcQueryPool
    /\ pc = "start"
    /\ FreshLocals
    /\ response = NoResponse
    /\ prev = NoResponse

NextAuthor ==
    \/ RejectQuery
    \/ Begin
    \/ QueryKeywords
    \/ KwLoopStep
    \/ QueryNames
    \/ Merge
    \/ SortAndRespond
    \/ AuthorCommit

SpecAuthor == InitAuthor /\ [][NextAuthor]_vars

\* The rows the keyword query selects in version v, and the categories the
\* name query selects in it.
KeywordHitsIn(v, ql) == { k \in v.kws : ILike(k.keyword, Pattern(ql)) }

NameHitsIn(v, ql) == { c \in DOMAIN v.name : ILike(v.name[c], Pattern(ql)) }

\* C28: the keyword read and the category-name read of one request observe
\* the same snapshot: what the two reads returned is what one taxonomy
\* version that existed during the request holds.
C28_OneSnapshotPerRequest ==
    pc \in {"merge", "sort", "done"} =>
        \E v \in history \cup { CurrentVersion } :
            /\ Range(keyword_rows) = KeywordHitsIn(v, query_lower)
            /\ name_categories = NameHitsIn(v, query_lower)

\* ------------------------------------------------- resolve_regulation
\* code.split("/"): the pieces between the separators, at least one.
RECURSIVE Split(_, _)
Split(s, sep) ==
    IF \A i \in 1..Len(s) : s[i] # sep THEN << s >>
    ELSE LET i == CHOOSE j \in 1..Len(s) :
                     s[j] = sep /\ \A k \in 1..(j - 1) : s[k] # sep
         IN << SubSeq(s, 1, i - 1) >> \o Split(SubSeq(s, i + 1, Len(s)), sep)

\* build_regulation_lookup: a later regulation with the same code replaces
\* an earlier one.
RECURSIVE build_regulation_lookup(_)
build_regulation_lookup(regulations) ==
    IF regulations = <<>> THEN <<>>
    ELSE LET lookup == build_regulation_lookup(SubSeq(regulations, 1, Len(regulations) - 1))
             reg == regulations[Len(regulations)]
         IN [k \in DOMAIN lookup \cup { reg.code } |->
                IF k = reg.code THEN reg ELSE lookup[k]]

\* return None, None
NoRegulation == << None, None >>

\* The first of the parts that is a key of the lookup, as `for part in
\* parts` finds it.
RECURSIVE FirstPartIn(_, _)
FirstPartIn(parts, lookup) ==
    IF parts = <<>> THEN NoRegulation
    ELSE IF Head(parts) \in DOMAIN lookup
         THEN << lookup[Head(parts)].title, lookup[Head(parts)].summary >>
         ELSE FirstPartIn(Tail(parts), lookup)

\* resolve_regulation(code, lookup); code is None or << the string >>.
resolve_regulation(code, lookup) ==
    IF code = None \/ code[1] = <<>> THEN NoRegulation
    ELSE IF code[1] \in DOMAIN lookup
         THEN << lookup[code[1]].title, lookup[code[1]].summary >>
         ELSE LET split == Split(code[1], "/")
                  parts == [i \in 1..Len(split) |-> Strip(split[i])]
              IN FirstPartIn(parts, lookup)

\* Regulation codes of categories: absent, empty, plain, compound with and
\* without blanks around the separator.
CodePool ==
    { None, << <<>> >>, << <<"A">> >>, << <<"C">> >>, << <<" ", "A">> >>,
      << <<"A", "/", "B">> >>, << <<"A", " ", "/", " ", "B">> >>,
      << <<"C", "/", "B">> >>, << <<"C", "/", "Z">> >> }

\* Entries of regulations.json.
Regulations ==
    { [code |-> <<"A">>, title |-> <<"a">>, summary |-> <<"a", "a">>],
      [code |-> <<"A">>, title |-> <<"z">>, summary |-> <<"z", "z">>],
      [code |-> <<"B">>, title |-> <<"b">>, summary |-> <<"b", "b">>],
      [code |-> <<"A", "/", "B">>, title |-> <<"c">>, summary |-> <<"c", "c">>] }

RegulationFiles ==
    { <<>> } \cup { << r >> : r \in Regulations }
             \cup { << r1, r2 >> : r1 \in Regulations, r2 \in Regulations }

\* A call of resolve_regulation is about to be made.
InitReg ==
    /\ cat_name = <<>>
    /\ keywords = {}
    /\ PlainColumns
    /\ cur = 1
    /\ suspended = <<>>
    /\ Quiet
    /\ NoSearch
    /\ \E code \in CodePool, regulations \in RegulationFiles :
          req = [op |-> "resolve_regulation", code |-> code,
                 lookup |-> build_regulation_lookup(regulations)]

\* The call returns.
ResolveRegulation ==
    /\ req.op = "resolve_regulation"
    /\ response = NoResponse
    /\ response' = [status |-> "ok", result |-> resolve_regulation(req.code, req.lookup)]
    /\ UNCHANGED << taxonomy, req, cur, suspended, search, others >>

NextReg == ResolveRegulation

SpecReg == InitReg /\ [][NextReg]_vars

\* The (title, summary) of the regulation stored under key.
Entry(key) == << req.lookup[key].title, req.lookup[key].summary >>

\* C30: (None, None) for an empty code; otherwise the full code string is
\* tried first and, when it is not a key, the first component of the
\* '/'-separated code; when neither is a key, (None, None).
C30_FullThenFirstComponent ==
    response.status = "ok" =>
        response.result =
            IF req.code = None \/ req.code[1] = <<>> THEN << None, None >>
            ELSE IF req.code[1] \in DOMAIN req.lookup THEN Entry(req.code[1])
            ELSE LET first == Strip(Split(req.code[1], "/")[1])
                 IN IF first \in DOMAIN req.lookup THEN Entry(first)
                    ELSE << None, None >>

\* ------------------------------------------------- the seed script
\* The tables as committed. In this part of the model a keyword row carries
\* its id column as well, since two rows can differ in it alone.
Tables ==
    [cat_name |-> cat_name, cat_slug |-> cat_slug, cat_parent |-> cat_parent,
     cat_requires_seal |-> cat_requires_seal, keywords |-> keywords,
     seal_types |-> seal_types, articles |-> articles]

\* What the seed script never touches.
unseeded == << req, cur, suspended, history, q, pc, locals, response >>

\* The row of table t whose slug is given, as the select by slug finds it.
IdOfSlug(t, slug) == CHOOSE c \in DOMAIN t.cat_slug : t.cat_slug[c] = slug

HasSlug(t, slug) == \E c \in DOMAIN t.cat_slug : t.cat_slug[c] = slug

\* Mutant of UpsertCategory: the insert takes no notice of the slug that is
\* already there.
UpsertCategory_Append(t, cat, parent_id) ==
    [t EXCEPT !.cat_name = Append(@, cat.name),
              !.cat_slug = Append(@, cat.slug),
              !.cat_parent = Append(@, parent_id),
              !.cat_requires_seal = Append(@, TRUE)]

\* pg_insert(ProductCategory).values(id=uuid4(), ...).on_conflict_do_update(
\* index_elements=["slug"], set_={name, requires_seal, parent_category_id,
\* ...}): a new row with a fresh id, or the row with that slug updated in
\* every column but id and slug.
UpsertCategory(t, cat, parent_id) ==
    IF HasSlug(t, cat.slug)
    THEN LET c == IdOfSlug(t, cat.slug)
         IN [t EXCEPT !.cat_name[c] = cat.name,
                      !.cat_parent[c] = parent_id,
                      !.cat_requires_seal[c] = TRUE]
    ELSE [t EXCEPT !.cat_name = Append(@, cat.name),
                   !.cat_slug = Append(@, cat.slug),
                   !.cat_parent = Append(@, parent_id),
                   !.cat_requires_seal = Append(@, TRUE)]

\* Mutant of UpsertKeyword: the row is inserted whether or not the category
\* has the keyword.
UpsertKeyword_AlwaysInsert(t, category_id, kw) ==
    [t EXCEPT !.keywords = @ \cup { [id |-> Cardinality(@) + 1,
                                     category_id |-> category_id, keyword |-> kw] }]

\* pg_insert(ProductKeyword).values(id=uuid4(), category_id, keyword)
\* .on_conflict_do_update(constraint="uq_category_keyword", set_={keyword}).
UpsertKeyword(t, category_id, kw) ==
    IF \E r \in t.keywords : r.category_id = category_id /\ r.keyword = kw
    THEN t
    ELSE [t EXCEPT !.keywords = @ \cup { [id |-> Cardinality(@) + 1,
                                          category_id |-> category_id, keyword |-> kw] }]

\* _upsert_keywords(session, category_id, keywords)
RECURSIVE upsert_keywords(_, _, _)
upsert_keywords(t, category_id, kws) ==
    IF kws = <<>> THEN t
    ELSE UpsertKeyword(upsert_keywords(t, category_id, SubSeq(kws, 1, Len(kws) - 1)),
                       category_id, kws[Len(kws)])

\* The upsert of upsert_seal_types and of upsert_articles: conflict on slug,
\* the name or title is overwritten.
UpsertBySlug(table, entry) ==
    [k \in DOMAIN table \cup { entry.slug } |->
        IF k = entry.slug THEN entry.name ELSE table[k]]

\* [c for c in categories_data if c.get("parent_category") is None]
RECURSIVE SelectEntries(_, _)
SelectEntries(entries, top) ==
    IF entries = <<>> THEN <<>>
    ELSE LET rest == SelectEntries(SubSeq(entries, 1, Len(entries) - 1), top)
             last == entries[Len(entries)]
         IN IF (last.parent_category = None) = top THEN Append(rest, last) ELSE rest

parents(data) == SelectEntries(data.categories, TRUE)

children(data) == SelectEntries(data.categories, FALSE)

\* Slugs, names and keywords of the data files.
SlugA == <<"a">>

SlugB == <<"b">>

SlugC == <<"c">>

\* An entry of categories.json.
Cat(slug, name, parent_category, kws) ==
    [slug |-> slug, name |-> name, parent_category |-> parent_category, keywords |-> kws]

\* The data files a run can find: two roots, one listing a keyword twice
\* and both sharing a keyword string; the same slug with another name;
\* three levels listed from the bottom up; two categories that name each
\* other as parent; a category that names itself.
SeedFiles ==
    { [seal_types |-> << [slug |-> SlugA, name |-> <<"Z">>] >>,
       categories |-> << Cat(SlugA, <<"Z">>, None, << <<"a", "b">>, <<"a", "b">> >>),
                         Cat(SlugB, <<"Z">>, None, << <<"a", "b">> >>) >>,
       articles |-> << [slug |-> SlugA, name |-> <<"Z">>] >>],
      [seal_types |-> << [slug |-> SlugA, name |-> <<"c", "A", "b">>] >>,
       categories |-> << Cat(SlugA, <<"c", "A", "b">>, None, << <<"c", "a", "b">> >>) >>,
       articles |-> <<>>],
      [seal_types |-> <<>>,
       categories |-> << Cat(SlugC, <<"Z">>, << SlugB >>, << <<"a", "b">> >>),
                         Cat(SlugB, <<"Z">>, << SlugA >>, <<>>),
                         Cat(SlugA, <<"Z">>, None, <<>>) >>,
       articles |-> <<>>],
      [seal_types |-> <<>>,
       categories |-> << Cat(SlugA, <<"Z">>, << SlugB >>, <<>>),
                         Cat(SlugB, <<"Z">>, << SlugA >>, <<>>) >>,
       articles |-> <<>>],
      [seal_types |-> <<>>,
       categories |-> << Cat(SlugA, <<"Z">>, << SlugA >>, <<>>) >>,
       articles |-> <<>>] }

\* The list the phase at pc loops over.
PhaseList(sd) ==
    CASE sd.pc = "seal_types" -> sd.data.seal_types
      [] sd.pc = "parents" -> parents(sd.data)
      [] sd.pc = "children" -> children(sd.data)
      [] sd.pc = "articles" -> sd.data.articles
      [] OTHER -> <<>>

Phases == { "seal_types", "parents", "children", "articles" }

NextPhase(phase) ==
    CASE phase = "seal_types" -> "parents"
      [] phase = "parents" -> "children"
      [] phase = "children" -> "articles"
      [] phase = "articles" -> "commit"

\* main: the data files are loaded and session = SessionLocal(); a run
\* starts when no other run is going on. prev keeps how the run before
\* ended, on which data, and the tables it left.
SeedOpen ==
    /\ seed.pc \in {"idle", "exited", "raised"}
    /\ \E data \in SeedFiles :
          seed' = [pc |-> "seal_types", data |-> data, i |-> 1, slug_to_id |-> <<>>,
                   at |-> "none"]
    /\ tx' = [open |-> TRUE, tables |-> Tables]
    /\ prev' = [status |-> seed.pc,
                data |-> IF seed.pc = "idle" THEN <<>> ELSE seed.data,
                tables |-> Tables]
    /\ UNCHANGED << taxonomy, seal_types, articles, db_error, unseeded >>

\* One iteration of the loop of upsert_seal_types.
SeedSealType ==
    /\ seed.pc = "seal_types"
    /\ seed.i <= Len(seed.data.seal_types)
    /\ db_error = "none"
    /\ tx' = [tx EXCEPT !.tables.seal_types = UpsertBySlug(@, seed.data.seal_types[seed.i])]
    /\ seed' = [seed EXCEPT !.i = @ + 1]
    /\ UNCHANGED << taxonomy, seal_types, articles, db_error, prev, unseeded >>

\* One iteration of `for cat in parents`: the upsert with a null parent,
\* the select of the row's id, the keywords.
SeedParent ==
    /\ seed.pc = "parents"
    /\ seed.i <= Len(parents(seed.data))
    /\ db_error = "none"
    /\ LET cat == parents(seed.data)[seed.i]
           t1 == UpsertCategory(tx.tables, cat, NoParent)
           id == IdOfSlug(t1, cat.slug)
       IN /\ tx' = [tx EXCEPT !.tables = upsert_keywords(t1, id, cat.keywords)]
          /\ seed' = [seed EXCEPT !.i = @ + 1,
                                   !.slug_to_id = [k \in DOMAIN @ \cup { cat.slug } |->
                                                     IF k = cat.slug THEN id ELSE @[k]]]
    /\ UNCHANGED << taxonomy, seal_types, articles, db_error, prev, unseeded >>

\* Mutant of SeedChild: a child whose parent is not found is written as a
\* root instead of being skipped.
SeedChild_NoSkip ==
    /\ seed.pc = "children"
    /\ seed.i <= Len(children(seed.data))
    /\ db_error = "none"
    /\ LET cat == children(seed.data)[seed.i]
           parent_slug == cat.parent_category[1]
           found == parent_slug \in DOMAIN seed.slug_to_id \/ HasSlug(tx.tables, parent_slug)
           parent_id == IF parent_slug \in DOMAIN seed.slug_to_id
                        THEN seed.slug_to_id[parent_slug]
                        ELSE IF found THEN IdOfSlug(tx.tables, parent_slug) ELSE NoParent
           t1 == UpsertCategory(tx.tables, cat, parent_id)
           id == IdOfSlug(t1, cat.slug)
       IN /\ tx' = [tx EXCEPT !.tables = upsert_keywords(t1, id, cat.keywords)]
          /\ seed' = [seed EXCEPT !.i = @ + 1,
                          !.slug_to_id = [k \in DOMAIN @ \cup { cat.slug } |->
                                             IF k = cat.slug THEN id ELSE @[k]]]
    /\ UNCHANGED << taxonomy, seal_types, articles, db_error, prev, unseeded >>

\* One iteration of `for cat in children`: the parent's id is taken from
\* slug_to_id or looked up in the database; when it is in neither the
\* child is skipped; otherwise the upsert with that parent id, the select
\* of the row's id, the keywords.
SeedChild ==
    /\ seed.pc = "children"
    /\ seed.i <= Len(children(seed.data))
    /\ db_error = "none"
    /\ LET cat == children(seed.data)[seed.i]
           parent_slug == cat.parent_category[1]
           known == parent_slug \in DOMAIN seed.slug_to_id
       IN IF ~known /\ ~HasSlug(tx.tables, parent_slug)
          THEN /\ tx' = tx
               /\ seed' = [seed EXCEPT !.i = @ + 1]
          ELSE LET parent_id == IF known THEN seed.slug_to_id[parent_slug]
                                ELSE IdOfSlug(tx.tables, parent_slug)
                   t1 == UpsertCategory(tx.tables, cat, parent_id)
                   id == IdOfSlug(t1, cat.slug)
               IN /\ tx' = [tx EXCEPT !.tables = upsert_keywords(t1, id, cat.keywords)]
                  /\ seed' = [seed EXCEPT !.i = @ + 1,
                                  !.slug_to_id =
                                      [k \in DOMAIN @ \cup { cat.slug, parent_slug } |->
                                          IF k = cat.slug THEN id
                                          ELSE IF k = parent_slug THEN parent_id
                                          ELSE @[k]]]
    /\ UNCHANGED << taxonomy, seal_types, articles, db_error, prev, unseeded >>

\* One iteration of the loop of upsert_articles.
SeedArticle ==
    /\ seed.pc = "articles"
    /\ seed.i <= Len(seed.data.articles)
    /\ db_error = "none"
    /\ tx' = [tx EXCEPT !.tables.articles = UpsertBySlug(@, seed.data.articles[seed.i])]
    /\ seed' = [seed EXCEPT !.i = @ + 1]
    /\ UNCHANGED << taxonomy, seal_types, articles, db_error, prev, unseeded >>

\* A loop is over and the next phase begins; slug_to_id lives as long as
\* upsert_categories, whose two loops are the phases in the middle.
SeedNextPhase ==
    /\ seed.pc \in Phases
    /\ seed.i > Len(PhaseList(seed))
    /\ seed' = [seed EXCEPT !.pc = NextPhase(@), !.i = 1]
    /\ UNCHANGED << taxonomy, seal_types, articles, db_error, tx, prev, unseeded >>

\* session.commit(): the session's view becomes the tables.
SeedCommit ==
    /\ seed.pc = "commit"
    /\ db_error = "none"
    /\ cat_name' = tx.tables.cat_name
    /\ cat_slug' = tx.tables.cat_slug
    /\ cat_parent' = tx.tables.cat_parent
    /\ cat_requires_seal' = tx.tables.cat_requires_seal
    /\ keywords' = tx.tables.keywords
    /\ seal_types' = tx.tables.seal_types
    /\ articles' = tx.tables.articles
    /\ seed' = [seed EXCEPT !.pc = "finally"]
    /\ UNCHANGED << db_error, tx, prev, unseeded >>

\* A statement of an upsert, or the commit, raises: control goes to the
\* except clause.
SeedRaises ==
    /\ \/ seed.pc \in Phases /\ seed.i <= Len(PhaseList(seed))
       \/ seed.pc = "commit"
    /\ db_error # "none"
    /\ seed' = [seed EXCEPT !.pc = "except", !.at = seed.pc]
    /\ UNCHANGED << taxonomy, seal_types, articles, db_error, tx, prev, unseeded >>

\* Mutant of SeedRollback: the except clause commits what the run wrote so
\* far.
SeedRollback_KeepsChanges ==
    /\ seed.pc = "except"
    /\ cat_name' = tx.tables.cat_name
    /\ cat_slug' = tx.tables.cat_slug
    /\ cat_parent' = tx.tables.cat_parent
    /\ cat_requires_seal' = tx.tables.cat_requires_seal
    /\ keywords' = tx.tables.keywords
    /\ seal_types' = tx.tables.seal_types
    /\ articles' = tx.tables.articles
    /\ seed' = [seed EXCEPT !.pc = "finally"]
    /\ UNCHANGED << db_error, tx, prev, unseeded >>

\* session.rollback() in the except clause; the exception is raised again.
SeedRollback ==
    /\ seed.pc = "except"
    /\ tx' = [tx EXCEPT !.tables = Tables]
    /\ seed' = [seed EXCEPT !.pc = "finally"]
    /\ UNCHANGED << taxonomy, seal_types, articles, db_error, prev, unseeded >>

\* finally: session.close(), then main returns or the exception leaves it.
SeedClose ==
    /\ seed.pc = "finally"
    /\ tx' = NoTx
    /\ seed' = [seed EXCEPT !.pc = IF seed.at = "none" THEN "exited" ELSE "raised"]
    /\ UNCHANGED << taxonomy, seal_types, articles, db_error, prev, unseeded >>

\* The database is back.
DbRecovers ==
    /\ db_error # "none"
    /\ db_error' = "none"
    /\ UNCHANGED << taxonomy, req, cur, suspended, history, seed, tx, seal_types,
                    articles, q, pc, locals, response, prev >>

\* An empty database and no run of the seed script yet.
InitSeed ==
    /\ cat_name = <<>>
    /\ keywords = {}
    /\ PlainColumns
    /\ SingleRequest
    /\ NoSearch

NextSeed ==
    \/ SeedOpen
    \/ SeedSealType
    \/ SeedParent
    \/ SeedChild
    \/ SeedArticle
    \/ SeedNextPhase
    \/ SeedCommit
    \/ SeedRaises
    \/ SeedRollback
    \/ SeedClose
    \/ DbFails
    \/ DbRecovers

SpecSeed == InitSeed /\ [][NextSeed]_vars

\* ------------------------------------------------- claims on the seed script
\* The tables of the open session, or the committed ones when none is open.
Views == { Tables } \cup (IF tx.open THEN { tx.tables } ELSE {})

\* C22: the parent relation is a forest in every reachable state: after any
\* sequence of seed runs no category is its own ancestor.
C22_ParentsFormForest ==
    \A c \in DOMAIN cat_parent :
        ReachesRoot(cat_parent, c, Len(cat_parent))

\* C23: the pair (category_id, keyword) is unique among keyword rows, in
\* the tables and in the view of a running seed.
C23_KeywordPairUnique ==
    \A t \in Views :
        /\ \A r1, r2 \in t.keywords :
              (r1.category_id = r2.category_id /\ r1.keyword = r2.keyword) => r1 = r2
        /\ \A r \in t.keywords : r.category_id \in DOMAIN t.cat_slug

\* A run whose data lists a keyword twice for one category has ended, and
\* two categories own a row with that string.
C23_Witness ==
    /\ seed.pc = "exited"
    /\ \E i \in 1..Len(seed.data.categories) :
          LET kws == seed.data.categories[i].keywords
          IN Len(kws) = 2 /\ kws[1] = kws[2] /\
             \E r1, r2 \in keywords :
                 /\ r1.keyword = kws[1]
                 /\ r2.keyword = kws[1]
                 /\ r1.category_id # r2.category_id

\* C24: slugs are unique and immutable: no two category rows share a slug,
\* a row keeps its id and its slug for ever (in the tables, and in the view
\* of a run until a rollback discards what the run wrote), an upsert of a
\* slug that is there changes the other columns of that row and adds no
\* row, and every keyword row and child row points at a row that is there.
C24_SlugUniqueImmutable ==
    /\ [](\A t \in Views :
            /\ \A c, d \in DOMAIN t.cat_slug : t.cat_slug[c] = t.cat_slug[d] => c = d
            /\ \A r \in t.keywords : r.category_id \in DOMAIN t.cat_slug
            /\ \A c \in DOMAIN t.cat_parent :
                  t.cat_parent[c] \in DOMAIN t.cat_slug \cup { NoParent })
    /\ [][\A c \in DOMAIN cat_slug :
              c \in DOMAIN cat_slug' /\ cat_slug'[c] = cat_slug[c]]_vars
    /\ [][(tx.open /\ tx'.open /\ seed.pc # "except") =>
              \A c \in DOMAIN tx.tables.cat_slug :
                  /\ c \in DOMAIN tx'.tables.cat_slug
                  /\ tx'.tables.cat_slug[c] = tx.tables.cat_slug[c]]_vars
    /\ [][(seed.pc \in {"parents", "children"} /\ seed'.pc = seed.pc /\ seed'.i = seed.i + 1) =>
              LET cat == PhaseList(seed)[seed.i]
              IN HasSlug(tx.tables, cat.slug) =>
                    /\ DOMAIN tx'.tables.cat_slug = DOMAIN tx.tables.cat_slug
                    /\ IdOfSlug(tx'.tables, cat.slug) = IdOfSlug(tx.tables, cat.slug)
                    /\ (tx' # tx => tx'.tables.cat_name[IdOfSlug(tx.tables, cat.slug)] = cat.name)]_vars

\* A category that owns a keyword and has a child was upserted again under
\* another name, and the run has ended.
C24_Witness ==
    /\ seed.pc = "exited"
    /\ prev.status = "exited"
    /\ \E c \in DOMAIN cat_slug :
          /\ c \in DOMAIN prev.tables.cat_slug
          /\ cat_name[c] # prev.tables.cat_name[c]
          /\ \E r \in keywords : r.category_id = c
          /\ \E d \in DOMAIN cat_parent : cat_parent[d] = c

\* C25: a category row written with a non-null parent references a row
\* that is there when the child is written; a child whose parent slug is
\* neither in slug_to_id nor in the database is skipped and nothing of it
\* is written.
C25_ParentExistsOrSkipped ==
    [][(seed.pc = "children" /\ seed'.pc = "children" /\ seed'.i = seed.i + 1) =>
          LET cat == children(seed.data)[seed.i]
              parent_slug == cat.parent_category[1]
          IN IF parent_slug \in DOMAIN seed.slug_to_id \/ HasSlug(tx.tables, parent_slug)
             THEN /\ HasSlug(tx'.tables, cat.slug)
                  /\ LET c == IdOfSlug(tx'.tables, cat.slug)
                     IN /\ tx'.tables.cat_parent[c] \in DOMAIN tx.tables.cat_slug
                        /\ tx.tables.cat_slug[tx'.tables.cat_parent[c]] = parent_slug
                        /\ \A i \in 1..Len(cat.keywords) :
                              \E r \in tx'.tables.keywords :
                                  r.category_id = c /\ r.keyword = cat.keywords[i]
             ELSE tx' = tx]_vars

\* The first child of the data was skipped, although it lists a keyword,
\* and the second was written under its parent.
C25_Witness ==
    /\ seed.pc = "children"
    /\ seed.i = 3
    /\ ~HasSlug(tx.tables, children(seed.data)[1].slug)
    /\ children(seed.data)[1].keywords # <<>>
    /\ tx.tables.keywords = {}
    /\ HasSlug(tx.tables, children(seed.data)[2].slug)
    /\ tx.tables.cat_parent[IdOfSlug(tx.tables, children(seed.data)[2].slug)] # NoParent

\* C26: the seed is idempotent: a run that follows a run on the same data
\* leaves the tables as that run left them.
C26_SeedIdempotent ==
    (seed.pc = "exited" /\ prev.status = "exited" /\ prev.data = seed.data) =>
        Tables = prev.tables

\* C29: a seed run is all-or-nothing: the tables change only at the commit
\* that follows the three phases and then take all the run wrote; a run
\* that raised leaves the tables as they were when it started; the
\* session is closed when main is left, either way.
C29_RunAllOrNothing ==
    /\ [][Tables' # Tables =>
              /\ seed.pc = "commit"
              /\ seed.at = "none"
              /\ seed'.pc = "finally"
              /\ Tables' = tx.tables]_vars
    /\ [](seed.pc = "raised" => Tables = prev.tables)
    /\ [](seed.pc \in {"idle", "exited", "raised"} <=> ~tx.open)
    /\ [][(seed.pc = "except" /\ seed'.pc # "except") =>
              (tx'.tables = Tables /\ seed'.at # "none")]_vars

\* The article upsert raised after the category phases had written rows,
\* and the run has been left.
C29_Witness ==
    /\ seed.pc = "raised"
    /\ seed.at = "articles"
    /\ parents(seed.data) # <<>>
    /\ seed.data.seal_types # <<>>
    /\ Tables = prev.tables
    /\ ~HasSlug(Tables, parents(seed.data)[1].slug)

====
